---- MODULE Spec2Model ----
(***************************************************************************)
(* The auction server (src/unnamed/part_000): the room registry, the      *)
(* per-room game state, the WebSocket message handlers, the close handler *)
(* and the round timer.  Node runs every handler to completion, so each   *)
(* handler (and each timer callback) is one atomic action.                *)
(*                                                                         *)
(* Time.  The code stores one instant, timer.endTime, and only ever reads *)
(* it as endTime - Date.now() (line 157).  The model therefore keeps the  *)
(* instants relative to Date.now(): timer.endTime is the number of whole  *)
(* seconds left until the stored endTime.  The setInterval callback runs  *)
(* once a second, less than a second after it is due; whether it runs     *)
(* exactly on time or a fraction of a second late is its input `late`.    *)
(* The callbacks that run while more than FineSeconds seconds are left    *)
(* only broadcast; they are taken together with the next one.             *)
(***************************************************************************)
EXTENDS Integers, Sequences, FiniteSets, TLC

\* ---------------------------------------------------------------- bounds
MaxConns == 2
MaxRooms == 1
MaxPlayers == 2
MaxItems == 1
MaxBids == 2
FineSeconds == 1

\* -------------------------------------------------------------- constants
NULL == 0

Conns == 1..MaxConns
RoomIds == 1..MaxRooms

\* DEFAULT_GAME_SETTINGS
DEFAULT_GAME_SETTINGS ==
    [playerStartingBudget |-> 5000,
     minBidIncrementPercentage |-> 5,
     auctionRoundDuration |-> 15]

VARIABLES
    clients,    \* wss.clients and the closed sockets: c -> [readyState, roomId, playerId, role]
    gameRooms,  \* room code -> [gameState, auctioneerPlayerId, activeAuctioneerWsId]
    ids,        \* how many room codes, player uuids and item uuids were generated
    ghost,      \* per room: bookkeeping the code does not keep (see GhostInit)
    out,        \* the last handler, its room and what it sent: [op, room, reply, bcast]
    llm         \* the sockets whose llm_query handler is suspended at its await

vars == <<clients, gameRooms, ids, ghost, out, llm>>

\* ---------------------------------------------------------------- helpers
RECURSIVE SumOver(_, _)
SumOver(f, S) ==
    IF S = {} THEN 0
    ELSE LET x == CHOOSE y \in S : TRUE IN f[x] + SumOver(f, S \ {x})

Max(a, b) == IF a >= b THEN a ELSE b

Sent(op, r, reply, bcast) == [op |-> op, room |-> r, reply |-> reply, bcast |-> bcast]

\* ws.readyState === WebSocket.OPEN for a possibly-null socket reference
IsOpen(cl, w) == w # NULL /\ cl[w].readyState = "OPEN"

\* createNewGameState
createNewGameState ==
    [items |-> <<>>,
     players |-> <<>>,
     currentAuctionItem |-> NULL,
     currentHighestBid |-> 0,
     currentHighestBidder |-> NULL,
     auctionState |-> "idle",
     timer |-> [active |-> FALSE, endTime |-> 0, interval |-> FALSE],
     gameSettings |-> DEFAULT_GAME_SETTINGS]

\* the player object built by create_room and join_room
NewPlayer(gs, c) ==
    [budget |-> gs.gameSettings.playerStartingBudget, wonItems |-> <<>>, ws |-> c]

\* bookkeeping for a fresh room
GhostInit ==
    [startBudget |-> <<>>,      \* player -> the budget it was created with
     lotDebit |-> <<>>,         \* player -> net amount debited since the lot was selected
     armedDuration |-> 0,       \* auctionRoundDuration at the last startAuctionTimer
     bids |-> 0,                \* number of accepted bids
     snap |-> <<>>]             \* player -> budget/wonItems when a socket bound to it last closed

NoSnap == [set |-> FALSE, budget |-> 0, wonItems |-> <<>>]

Extend(f, k, v) == [x \in (DOMAIN f) \cup {k} |-> IF x = k THEN v ELSE f[x]]

GhostJoin(g, p, budget) ==
    [g EXCEPT !.startBudget = Extend(g.startBudget, p, budget),
              !.lotDebit = Extend(g.lotDebit, p, 0),
              !.snap = Extend(g.snap, p, NoSnap)]

\* ------------------------------------------------------------------- Init
Init ==
    /\ clients = [c \in Conns |-> [readyState |-> "NONE", roomId |-> NULL,
                                    playerId |-> NULL, role |-> "guest"]]
    /\ gameRooms = <<>>
    /\ ids = [room |-> 0, player |-> 0, item |-> 0]
    /\ ghost = <<>>
    /\ out = Sent("init", NULL, <<>>, <<>>)
    /\ llm = {}

\* wss.on('connection'): sockets are accepted in order of their ids
Connection(c) ==
    /\ UNCHANGED llm
    /\ clients[c].readyState = "NONE"
    /\ \A d \in Conns : d < c => clients[d].readyState # "NONE"
    /\ clients' = [clients EXCEPT ![c].readyState = "OPEN"]
    /\ out' = Sent("connection", NULL, <<"client_id_assigned">>, <<>>)
    /\ UNCHANGED <<gameRooms, ids, ghost>>

\* a handler that returns after sendToClient(ws, {type: 'error', ...}); the log
\* does not tell the rejected operations apart
Reject(op, c) ==
    /\ out' = Sent("rejected", NULL, <<"error">>, <<>>)
    /\ UNCHANGED <<clients, gameRooms, ids, ghost>>

\* mutant of AlreadyInRoom: the socket's binding is not tested
AlreadyInRoom_Never(c) == FALSE

\* if (ws.roomId) of create_room and join_room (lines 308, 337)
AlreadyInRoom(c) == clients[c].roomId # NULL

\* case 'create_room'
CreateRoom(c) ==
    /\ UNCHANGED llm
    /\ clients[c].readyState = "OPEN"
    /\ IF AlreadyInRoom(c)
       THEN Reject("create_room", c)
       ELSE /\ ids.room < MaxRooms
            /\ ids.player < MaxPlayers
            /\ LET newRoomId == ids.room + 1
                   pid == ids.player + 1
                   gs0 == createNewGameState
                   gs == [gs0 EXCEPT !.players = Extend(gs0.players, pid, NewPlayer(gs0, c))]
               IN /\ clients' = [clients EXCEPT ![c] = [readyState |-> "OPEN", roomId |-> newRoomId,
                                                        playerId |-> pid, role |-> "auctioneer"]]
                  /\ gameRooms' = Extend(gameRooms, newRoomId,
                                         [gameState |-> gs, auctioneerPlayerId |-> pid,
                                          activeAuctioneerWsId |-> c])
                  /\ ghost' = Extend(ghost, newRoomId,
                                     GhostJoin(GhostInit, pid, gs.players[pid].budget))
                  /\ ids' = [ids EXCEPT !.room = newRoomId, !.player = pid]
                  /\ out' = Sent("create_room", newRoomId, <<"room_created", "joined_room">>,
                                 <<"info", "auction_state_update">>)

\* case 'join_room'
JoinRoom(c, targetRoomId) ==
    /\ UNCHANGED llm
    /\ clients[c].readyState = "OPEN"
    /\ IF AlreadyInRoom(c)
       THEN Reject("join_room", c)
       ELSE IF targetRoomId = NULL \/ targetRoomId \notin DOMAIN gameRooms
       THEN /\ out' = Sent("rejected", NULL, <<"room_not_found">>, <<>>)
            /\ UNCHANGED <<clients, gameRooms, ids, ghost>>
       ELSE /\ ids.player < MaxPlayers
            /\ LET pid == ids.player + 1
                   gs == gameRooms[targetRoomId].gameState
                   p == NewPlayer(gs, c)
               IN /\ clients' = [clients EXCEPT ![c] = [readyState |-> "OPEN", roomId |-> targetRoomId,
                                                        playerId |-> pid, role |-> "player"]]
                  /\ gameRooms' = [gameRooms EXCEPT ![targetRoomId].gameState.players =
                                       Extend(gs.players, pid, p)]
                  /\ ghost' = [ghost EXCEPT ![targetRoomId] = GhostJoin(@, pid, p.budget)]
                  /\ ids' = [ids EXCEPT !.player = pid]
                  /\ out' = Sent("join_room", targetRoomId, <<"joined_room">>,
                                 <<"info", "auction_state_update">>)

\* mutant of AuctioneerPlayerExists: the auctioneer's player object is not found
AuctioneerPlayerExists_Never(room, playerId) == FALSE

\* if (room.gameState.players[ws.playerId]) in the auctioneer branch (line 370)
AuctioneerPlayerExists(room, playerId) == playerId \in DOMAIN room.gameState.players

\* case 'reconnect_session' (no check that the socket is unbound)
ReconnectSession(c, roomId, role, playerId) ==
    /\ UNCHANGED llm
    /\ clients[c].readyState = "OPEN"
    /\ IF roomId # NULL /\ roomId \in DOMAIN gameRooms
       THEN LET room == gameRooms[roomId]
                bound == [readyState |-> "OPEN", roomId |-> roomId, playerId |-> playerId, role |-> role]
            IN IF role = "auctioneer" /\ room.auctioneerPlayerId = playerId
               THEN /\ clients' = [clients EXCEPT ![c] = bound]
                    /\ IF AuctioneerPlayerExists(room, playerId)
                       THEN /\ gameRooms' = [gameRooms EXCEPT
                                    ![roomId].gameState.players[playerId].ws = c,
                                    ![roomId].activeAuctioneerWsId = c]
                            /\ ghost' = [ghost EXCEPT ![roomId].snap[playerId] = NoSnap]
                            /\ out' = Sent("reconnect_session", roomId, <<"reconnected_session">>,
                                           <<"info", "auction_state_update">>)
                       ELSE /\ out' = Sent("rejected", NULL, <<"error">>, <<>>)
                            /\ UNCHANGED <<gameRooms, ghost>>
                    /\ UNCHANGED ids
               ELSE IF role = "player" /\ playerId \in DOMAIN room.gameState.players
               THEN /\ clients' = [clients EXCEPT ![c] = bound]
                    /\ gameRooms' = [gameRooms EXCEPT ![roomId].gameState.players[playerId].ws = c]
                    /\ ghost' = [ghost EXCEPT ![roomId].snap[playerId] = NoSnap]
                    /\ out' = Sent("reconnect_session", roomId, <<"reconnected_session">>,
                                   <<"info", "auction_state_update">>)
                    /\ UNCHANGED ids
               ELSE Reject("reconnect_session", c)
       ELSE Reject("reconnect_session", c)

\* ------------------------------------------------- room-bound operations
\* the guard of line 418: the socket is bound to a room that still exists
InRoom(c) == clients[c].roomId # NULL /\ clients[c].roomId \in DOMAIN gameRooms

\* mutant of IsAuctioneer: the caller's playerId is not compared
IsAuctioneer_Anyone(c) == TRUE

\* ws.playerId !== currentRoom.auctioneerPlayerId
IsAuctioneer(c) == clients[c].playerId = gameRooms[clients[c].roomId].auctioneerPlayerId

\* mutant of ValidSettings: every update is refused
ValidSettings_Never(s) == FALSE

\* the validation of update_settings (lines 442-444)
ValidSettings(s) ==
    /\ s.playerStartingBudget >= 100
    /\ s.minBidIncrementPercentage >= 1 /\ s.minBidIncrementPercentage <= 100
    /\ s.auctionRoundDuration >= 5 /\ s.auctionRoundDuration <= 120

\* case 'update_settings'
UpdateSettings(c, settings) ==
    /\ UNCHANGED llm
    /\ clients[c].readyState = "OPEN"
    /\ IF ~InRoom(c) THEN Reject("update_settings", c)
       ELSE IF ~IsAuctioneer(c) THEN Reject("update_settings", c)
       ELSE IF ~ValidSettings(settings) THEN Reject("update_settings", c)
       ELSE /\ gameRooms' = [gameRooms EXCEPT ![clients[c].roomId].gameState.gameSettings = settings]
            /\ out' = Sent("update_settings", clients[c].roomId, <<>>, <<"settings_updated", "auction_state_update">>)
            /\ UNCHANGED <<clients, ids, ghost>>

\* the item object built by add_item and add_batch_items
NewItem(id, basePrice) == [id |-> id, basePrice |-> basePrice, status |-> "pending"]

\* case 'add_item'
AddItem(c, basePrice) ==
    /\ UNCHANGED llm
    /\ clients[c].readyState = "OPEN"
    /\ IF ~InRoom(c) THEN Reject("add_item", c)
       ELSE IF ~IsAuctioneer(c) THEN Reject("add_item", c)
       ELSE IF basePrice < 0 THEN Reject("add_item", c)
       ELSE /\ ids.item < MaxItems
            /\ gameRooms' = [gameRooms EXCEPT ![clients[c].roomId].gameState.items =
                                 Append(@, NewItem(ids.item + 1, basePrice))]
            /\ ids' = [ids EXCEPT !.item = @ + 1]
            /\ out' = Sent("add_item", clients[c].roomId, <<>>, <<"item_added", "auction_state_update">>)
            /\ UNCHANGED <<clients, ghost>>

\* the forEach of add_batch_items: invalid entries are skipped
RECURSIVE BatchItems(_, _)
BatchItems(prices, n) ==
    IF prices = <<>> THEN <<>>
    ELSE IF Head(prices) >= 0
         THEN <<NewItem(n + 1, Head(prices))>> \o BatchItems(Tail(prices), n + 1)
         ELSE BatchItems(Tail(prices), n)

\* case 'add_batch_items'
AddBatchItems(c, prices) ==
    /\ UNCHANGED llm
    /\ clients[c].readyState = "OPEN"
    /\ IF ~InRoom(c) THEN Reject("add_batch_items", c)
       ELSE IF ~IsAuctioneer(c) THEN Reject("add_batch_items", c)
       ELSE IF Len(prices) = 0 THEN Reject("add_batch_items", c)
       ELSE LET added == BatchItems(prices, ids.item)
            IN /\ ids.item + Len(added) <= MaxItems
               /\ gameRooms' = [gameRooms EXCEPT ![clients[c].roomId].gameState.items = @ \o added]
               /\ ids' = [ids EXCEPT !.item = @ + Len(added)]
               /\ out' = Sent("add_batch_items", clients[c].roomId, <<>>, <<"batch_items_added", "auction_state_update">>)
               /\ UNCHANGED <<clients, ghost>>

\* case 'set_player_name' (display names are not part of the model's state)
SetPlayerName(c, playerId, nameOk) ==
    /\ UNCHANGED llm
    /\ clients[c].readyState = "OPEN"
    /\ IF ~InRoom(c) THEN Reject("set_player_name", c)
       ELSE IF clients[c].playerId # playerId
               \/ playerId \notin DOMAIN gameRooms[clients[c].roomId].gameState.players
       THEN Reject("set_player_name", c)
       ELSE IF ~nameOk THEN Reject("set_player_name", c)
       ELSE /\ out' = Sent("set_player_name", clients[c].roomId, <<"info">>, <<"auction_state_update">>)
            /\ UNCHANGED <<clients, gameRooms, ids, ghost>>

\* default: an unknown message type
UnknownMessage(c) ==
    /\ UNCHANGED llm
    /\ clients[c].readyState = "OPEN"
    /\ Reject("unknown", c)

\* ------------------------------------------------------------ round timer
\* mutant of stopAuctionTimer: the interval is left scheduled
stopAuctionTimer_Noop(gs) == gs

\* stopAuctionTimer
stopAuctionTimer(gs) ==
    [gs EXCEPT !.timer = [active |-> FALSE, endTime |-> 0, interval |-> FALSE]]

\* startAuctionTimer: endTime = Date.now() + duration * 1000, setInterval(..., 1000)
startAuctionTimer(gs) ==
    [gs EXCEPT !.timer = [active |-> TRUE,
                          endTime |-> gs.gameSettings.auctionRoundDuration,
                          interval |-> TRUE]]

\* mutant of resetAuctionTimer: the timer is left running as it is
resetAuctionTimer_Noop(gs) == gs

\* resetAuctionTimer
resetAuctionTimer(gs) ==
    IF gs.auctionState = "bidding" THEN startAuctionTimer(gs) ELSE gs

\* mutant of SetStatus: no status is written
SetStatus_Noop(items, id, status) == items

\* mutant of SetStatus: the item is marked sold whatever status is asked for
SetStatus_Sold(items, id, status) ==
    [i \in DOMAIN items |-> IF items[i].id = id THEN [items[i] EXCEPT !.status = "sold"]
                            ELSE items[i]]

\* items.find(item => item.id === id), then itemInList.status = status
SetStatus(items, id, status) ==
    [i \in DOMAIN items |-> IF items[i].id = id THEN [items[i] EXCEPT !.status = status]
                            ELSE items[i]]

\* the item object currentAuctionItem refers to (it is an element of items)
ItemOf(gs, id) == gs.items[CHOOSE i \in DOMAIN gs.items : gs.items[i].id = id]

\* mutant of ResetLot: currentAuctionItem is not cleared
ResetLot_KeepsItem(gs) ==
    [gs EXCEPT !.currentHighestBid = 0,
               !.currentHighestBidder = NULL,
               !.auctionState = "idle"]

\* mutant of ResetLot: the highest bidder is not cleared
ResetLot_KeepsBidder(gs) ==
    [gs EXCEPT !.currentAuctionItem = NULL,
               !.currentHighestBid = 0,
               !.auctionState = "idle"]

\* the four assignments that end a lot (lines 228-231, 554-557, 653-656)
ResetLot(gs) ==
    [gs EXCEPT !.currentAuctionItem = NULL,
               !.currentHighestBid = 0,
               !.currentHighestBidder = NULL,
               !.auctionState = "idle"]

\* mutant of CanFinalize: auctionState is not tested
CanFinalize_AnyState(gs) == gs.currentAuctionItem # NULL

\* the guard of finalizeCurrentAuction (line 192)
CanFinalize(gs) == gs.auctionState = "bidding" /\ gs.currentAuctionItem # NULL

\* mutant of HasWinner: the winner branch is never taken
HasWinner_Never(gs) == FALSE

\* winnerId && room.gameState.players[winnerId]
HasWinner(gs) ==
    gs.currentHighestBidder # NULL /\ gs.currentHighestBidder \in DOMAIN gs.players

\* mutant of finalizeCurrentAuction: nothing is settled
finalizeCurrentAuction_Skip(gs) == gs

\* finalizeCurrentAuction: the game state it leaves
finalizeCurrentAuction(gs) ==
    IF ~CanFinalize(gs) THEN gs
    ELSE LET g1 == stopAuctionTimer(gs)
             wonItem == g1.currentAuctionItem
             finalBid == g1.currentHighestBid
             winnerId == g1.currentHighestBidder
             g2 == IF HasWinner(g1)
                   THEN [g1 EXCEPT !.players[winnerId].wonItems =
                                       Append(@, [id |-> wonItem, finalBid |-> finalBid]),
                                   !.items = SetStatus(@, wonItem, "sold")]
                   ELSE [g1 EXCEPT !.items = SetStatus(@, wonItem, "pending")]
         IN ResetLot(g2)

\* finalizeCurrentAuction: the broadcasts it makes
FinalizeBroadcasts(gs) ==
    IF ~CanFinalize(gs) THEN <<>>
    ELSE IF HasWinner(gs) THEN <<"item_finalized", "auction_state_update">>
    ELSE <<"info", "auction_state_update">>

\* bookkeeping: a lot ended
GhostLotEnd(g) ==
    [g EXCEPT !.lotDebit = [p \in DOMAIN g.lotDebit |-> 0], !.armedDuration = 0]

\* bookkeeping: startAuctionTimer ran
GhostArmed(g, gs) ==
    [g EXCEPT !.armedDuration = IF gs.timer.interval THEN gs.gameSettings.auctionRoundDuration
                                ELSE 0]

\* ------------------------------------------------------ auctioneer's lot
\* mutant of ItemPending: the item's status is not tested
ItemPending_AnyStatus(gs, itemId) == \E i \in DOMAIN gs.items : gs.items[i].id = itemId

\* items.find(item => item.id === data.itemId && item.status === 'pending') (line 501)
ItemPending(gs, itemId) ==
    \E i \in DOMAIN gs.items : gs.items[i].id = itemId /\ gs.items[i].status = "pending"

\* case 'select_item_for_auction'
SelectItemForAuction(c, itemId) ==
    /\ UNCHANGED llm
    /\ clients[c].readyState = "OPEN"
    /\ IF ~InRoom(c) THEN Reject("select_item_for_auction", c)
       ELSE IF ~IsAuctioneer(c) THEN Reject("select_item_for_auction", c)
       ELSE LET r == clients[c].roomId
                gs == gameRooms[r].gameState
            IN IF gs.auctionState # "idle" THEN Reject("select_item_for_auction", c)
               ELSE IF ItemPending(gs, itemId)
               THEN /\ gameRooms' = [gameRooms EXCEPT ![r].gameState =
                             [gs EXCEPT !.currentAuctionItem = itemId,
                                        !.currentHighestBid = ItemOf(gs, itemId).basePrice,
                                        !.currentHighestBidder = NULL,
                                        !.auctionState = "item_selected",
                                        !.items = SetStatus(@, itemId, "auctioning")]]
                    /\ ghost' = [ghost EXCEPT ![r] = GhostLotEnd(@)]
                    /\ out' = Sent("select_item_for_auction", clients[c].roomId, <<>>,
                                   <<"auction_state_update", "info">>)
                    /\ UNCHANGED <<clients, ids>>
               ELSE Reject("select_item_for_auction", c)

\* case 'start_bidding'
StartBidding(c) ==
    /\ UNCHANGED llm
    /\ clients[c].readyState = "OPEN"
    /\ IF ~InRoom(c) THEN Reject("start_bidding", c)
       ELSE IF ~IsAuctioneer(c) THEN Reject("start_bidding", c)
       ELSE LET r == clients[c].roomId
                gs == gameRooms[r].gameState
            IN IF gs.auctionState # "item_selected" \/ gs.currentAuctionItem = NULL
               THEN Reject("start_bidding", c)
               ELSE LET g1 == startAuctionTimer([gs EXCEPT !.auctionState = "bidding"])
                    IN /\ gameRooms' = [gameRooms EXCEPT ![r].gameState = g1]
                       /\ ghost' = [ghost EXCEPT ![r] = GhostArmed(@, g1)]
                       /\ out' = Sent("start_bidding", clients[c].roomId, <<>>, <<"auction_state_update", "info">>)
                       /\ UNCHANGED <<clients, ids>>

\* case 'finalize_item'
FinalizeItem(c) ==
    /\ UNCHANGED llm
    /\ clients[c].readyState = "OPEN"
    /\ IF ~InRoom(c) THEN Reject("finalize_item", c)
       ELSE IF ~IsAuctioneer(c) THEN Reject("finalize_item", c)
       ELSE LET r == clients[c].roomId
                gs == gameRooms[r].gameState
            IN /\ gameRooms' = [gameRooms EXCEPT ![r].gameState = finalizeCurrentAuction(gs)]
               /\ ghost' = [ghost EXCEPT ![r] = IF CanFinalize(gs) THEN GhostLotEnd(@) ELSE @]
               /\ out' = Sent("finalize_item", clients[c].roomId, <<>>, FinalizeBroadcasts(gs))
               /\ UNCHANGED <<clients, ids>>

\* the refund of clear_auction and of the auctioneer's close (lines 541-552, 641-652):
\* the highest bidder is credited only if its socket reference is open
RefundsEscrow(gs, cl) ==
    /\ gs.currentHighestBidder # NULL
    /\ gs.currentHighestBidder \in DOMAIN gs.players
    /\ gs.auctionState = "bidding"
    /\ IsOpen(cl, gs.players[gs.currentHighestBidder].ws)

RefundEscrow(gs, cl) ==
    IF RefundsEscrow(gs, cl)
    THEN [gs EXCEPT !.players[gs.currentHighestBidder].budget = @ + gs.currentHighestBid]
    ELSE gs

\* case 'clear_auction'
ClearAuction(c) ==
    /\ UNCHANGED llm
    /\ clients[c].readyState = "OPEN"
    /\ IF ~InRoom(c) THEN Reject("clear_auction", c)
       ELSE IF ~IsAuctioneer(c) THEN Reject("clear_auction", c)
       ELSE LET r == clients[c].roomId
                gs == gameRooms[r].gameState
                g1 == stopAuctionTimer(gs)
                g2 == IF g1.currentAuctionItem # NULL
                      THEN LET g == IF ItemOf(g1, g1.currentAuctionItem).status = "auctioning"
                                    THEN [g1 EXCEPT !.items = SetStatus(@, g1.currentAuctionItem, "pending")]
                                    ELSE g1
                           IN RefundEscrow(g, clients)
                      ELSE g1
            IN /\ gameRooms' = [gameRooms EXCEPT ![r].gameState = ResetLot(g2)]
               /\ ghost' = [ghost EXCEPT ![r] = GhostLotEnd(@)]
               /\ out' = Sent("clear_auction", clients[c].roomId, <<>>, <<"auction_cleared">>)
               /\ UNCHANGED <<clients, ids>>

\* ---------------------------------------------------------------- bidding
\* mutant of MinAllowedBid: a bid equal to the standing bid is enough
MinAllowedBid_Same(highest, pct) == highest

\* mutant of MinAllowedBid: no minimum
MinAllowedBid_None(highest, pct) == 0

\* the (percentage, amount) pairs, for the percentages of IncrementPercents and of
\* DEFAULT_GAME_SETTINGS and amounts up to 120, whose IEEE double product
\* amount * (1 + percentage / 100) lies just above the exact integer value, e.g.
\* 100 * (1 + 10 / 100) = 110.00000000000001: Math.ceil then gives one more than the
\* exact ceiling.  No product of this range lies below its exact value.
CeilOvershoots == {<<10, 50>>, <<10, 90>>, <<10, 100>>, <<10, 110>>}

\* Math.ceil(currentHighestBid * (1 + minBidIncrementPercentage / 100)) in IEEE doubles
MinAllowedBid(highest, pct) ==
    (highest * (100 + pct) + 99) \div 100
        + (IF <<pct, highest>> \in CeilOvershoots THEN 1 ELSE 0)

\* mutant of ExceedsBudget: the budget test is dropped
ExceedsBudget_Dropped(bid, budget) == FALSE

\* bid > player.budget
ExceedsBudget(bid, budget) == bid > budget

\* mutant of RefundsOutbid: the previous highest bidder is never refunded
RefundsOutbid_Never(gs, cl, bidder) == FALSE

\* the refund of the previous highest bidder (lines 578-589)
RefundsOutbid(gs, cl, bidder) ==
    /\ gs.currentHighestBidder # NULL
    /\ gs.currentHighestBidder \in DOMAIN gs.players
    /\ gs.currentHighestBidder # bidder
    /\ IsOpen(cl, gs.players[gs.currentHighestBidder].ws)

\* the accepted bid: refund, debit, new highest bid, timer reset (lines 578-595)
AcceptBid(gs, cl, bidder, bid) ==
    LET g1 == IF RefundsOutbid(gs, cl, bidder)
              THEN [gs EXCEPT !.players[gs.currentHighestBidder].budget = @ + gs.currentHighestBid]
              ELSE gs
        g2 == [g1 EXCEPT !.players[bidder].budget = @ - bid,
                         !.currentHighestBid = bid,
                         !.currentHighestBidder = bidder]
    IN resetAuctionTimer(g2)

\* bookkeeping: the debit and the refund of an accepted bid
GhostBid(g, gs, cl, bidder, bid) ==
    LET g1 == IF RefundsOutbid(gs, cl, bidder)
              THEN [g EXCEPT !.lotDebit[gs.currentHighestBidder] = @ - gs.currentHighestBid]
              ELSE g
    IN [g1 EXCEPT !.lotDebit[bidder] = @ + bid, !.bids = @ + 1]

\* mutant of BiddingActive: bids are taken in every state
BiddingActive_Always(gs) == TRUE

\* the state test of place_bid (line 563)
BiddingActive(gs) == gs.auctionState = "bidding" /\ gs.currentAuctionItem # NULL

\* case 'place_bid'; limit bounds the number of accepted bids the model follows
PlaceBidUpTo(c, playerId, bid, limit) ==
    /\ UNCHANGED llm
    /\ clients[c].readyState = "OPEN"
    /\ IF ~InRoom(c) THEN Reject("place_bid", c)
       ELSE LET r == clients[c].roomId
                gs == gameRooms[r].gameState
            IN IF clients[c].playerId # playerId \/ playerId \notin DOMAIN gs.players
               THEN Reject("place_bid", c)
               ELSE IF ~BiddingActive(gs)
               THEN Reject("place_bid", c)
               ELSE IF bid < MinAllowedBid(gs.currentHighestBid,
                                           gs.gameSettings.minBidIncrementPercentage)
               THEN Reject("place_bid", c)
               ELSE IF ExceedsBudget(bid, gs.players[playerId].budget)
               THEN Reject("place_bid", c)
               ELSE LET g1 == AcceptBid(gs, clients, playerId, bid)
                    IN /\ ghost[r].bids < limit
                       /\ gameRooms' = [gameRooms EXCEPT ![r].gameState = g1]
                       /\ ghost' = [ghost EXCEPT ![r] =
                                        GhostArmed(GhostBid(@, gs, clients, playerId, bid), g1)]
                       /\ out' = Sent("place_bid", clients[c].roomId, <<>>, <<"player_bid_update">>)
                       /\ UNCHANGED <<clients, ids>>

PlaceBid(c, playerId, bid) == PlaceBidUpTo(c, playerId, bid, MaxBids)

\* ------------------------------------------------------------- disconnect
\* the deletion test of the close handler (lines 661-664, 688-691)
NoOneLeft(room, cl) ==
    /\ \A p \in DOMAIN room.gameState.players :
           ~(IsOpen(cl, room.gameState.players[p].ws) /\ p # room.auctioneerPlayerId)
    /\ ~IsOpen(cl, room.activeAuctioneerWsId)

\* mutant of CloseAuctioneer: the item is not returned to pending
CloseAuctioneer_KeepsStatus(room, cl) ==
    [room EXCEPT !.activeAuctioneerWsId = NULL,
                 !.gameState = stopAuctionTimer(ResetLot(RefundEscrow(room.gameState, cl)))]

\* the auctioneer branch of the close handler (lines 633-658): the room it leaves
CloseAuctioneer(room, cl) ==
    LET gs == room.gameState
        g1 == IF gs.currentAuctionItem # NULL
                 /\ ItemOf(gs, gs.currentAuctionItem).status = "auctioning"
              THEN [gs EXCEPT !.items = SetStatus(@, gs.currentAuctionItem, "pending")]
              ELSE gs
        g2 == RefundEscrow(g1, cl)
    IN [room EXCEPT !.activeAuctioneerWsId = NULL,
                    !.gameState = stopAuctionTimer(ResetLot(g2))]

\* mutant of RetractBid: the bid and its bidder are left standing
RetractBid_KeepsBid(gs) == resetAuctionTimer(gs)

\* the retraction of the closing player's highest bid (lines 672-682)
RetractBid(gs) ==
    resetAuctionTimer(
        [gs EXCEPT !.currentHighestBidder = NULL,
                   !.currentHighestBid = IF gs.currentAuctionItem # NULL
                                         THEN ItemOf(gs, gs.currentAuctionItem).basePrice
                                         ELSE 0])

\* the player branch of the close handler (lines 670-685): the room it leaves
ClosePlayer(room, pid) ==
    LET gs == room.gameState
        g1 == IF gs.currentHighestBidder = pid THEN RetractBid(gs) ELSE gs
    IN [room EXCEPT !.gameState = [g1 EXCEPT !.players[pid].ws = NULL]]

\* bookkeeping: a socket bound to player pid closed
GhostSnap(g, gs, pid) ==
    IF pid \in DOMAIN gs.players
    THEN [g EXCEPT !.snap[pid] = [set |-> TRUE, budget |-> gs.players[pid].budget,
                                  wonItems |-> gs.players[pid].wonItems]]
    ELSE g

Remove(f, k) == [x \in (DOMAIN f) \ {k} |-> f[x]]

\* a closed socket: only its readyState is ever read again (through player.ws)
ClosedSocket == [readyState |-> "CLOSED", roomId |-> NULL, playerId |-> NULL, role |-> "guest"]

\* ws.on('close'); the closing socket is no longer OPEN when the handler runs
Close(c) ==
    /\ UNCHANGED llm
    /\ clients[c].readyState = "OPEN"
    /\ LET cl == [clients EXCEPT ![c] = ClosedSocket]
           r == clients[c].roomId
           pid == clients[c].playerId
       IN /\ clients' = cl
          /\ UNCHANGED ids
          /\ IF r = NULL \/ r \notin DOMAIN gameRooms
             THEN /\ out' = Sent("close", NULL, <<>>, <<>>)
                  /\ UNCHANGED <<gameRooms, ghost>>
             ELSE LET room == gameRooms[r]
                      gs == room.gameState
                  IN IF pid = room.auctioneerPlayerId
                     THEN LET room1 == CloseAuctioneer(room, cl)
                              g1 == GhostSnap(GhostLotEnd(ghost[r]), gs, pid)
                          IN /\ out' = Sent("close", r, <<>>, <<"info", "auction_cleared">>)
                             /\ IF NoOneLeft(room1, cl)
                                THEN /\ gameRooms' = Remove(gameRooms, r)
                                     /\ ghost' = Remove(ghost, r)
                                ELSE /\ gameRooms' = [gameRooms EXCEPT ![r] = room1]
                                     /\ ghost' = [ghost EXCEPT ![r] = g1]
                     ELSE IF clients[c].role = "player" /\ pid # NULL /\ pid \in DOMAIN gs.players
                     THEN LET room1 == ClosePlayer(room, pid)
                              g0 == IF gs.currentHighestBidder = pid
                                    THEN GhostArmed(ghost[r], room1.gameState)
                                    ELSE ghost[r]
                              g1 == GhostSnap(g0, gs, pid)
                          IN /\ out' = Sent("close", r, <<>>,
                                    IF gs.currentHighestBidder = pid
                                    THEN <<"info", "auction_state_update", "info">>
                                    ELSE <<"info">>)
                             /\ IF NoOneLeft(room1, cl)
                                THEN /\ gameRooms' = Remove(gameRooms, r)
                                     /\ ghost' = Remove(ghost, r)
                                ELSE /\ gameRooms' = [gameRooms EXCEPT ![r] = room1]
                                     /\ ghost' = [ghost EXCEPT ![r] = g1]
                     ELSE /\ out' = Sent("close", r, <<>>, <<>>)
                          /\ UNCHANGED <<gameRooms, ghost>>

\* ------------------------------------------------------------------ clock
\* the seconds that pass up to the next callback the model runs
Elapsed(timer) == IF timer.endTime > FineSeconds THEN timer.endTime - FineSeconds ELSE 1

\* Math.max(0, Math.floor((endTime - Date.now()) / 1000)): a callback that runs
\* a fraction of a second late sees one whole second less
RemainingTime(endTime, late) == Max(0, endTime - (IF late THEN 1 ELSE 0))

\* the setInterval callback of startAuctionTimer (lines 156-166)
TimerCallback(r, late) ==
    /\ UNCHANGED llm
    /\ r \in DOMAIN gameRooms
    /\ gameRooms[r].gameState.timer.interval
    /\ LET gs == gameRooms[r].gameState
           endTime == Max(0, gs.timer.endTime - Elapsed(gs.timer))
       IN IF RemainingTime(endTime, late) <= 0
          THEN LET g1 == [gs EXCEPT !.timer = [active |-> FALSE, endTime |-> endTime,
                                               interval |-> FALSE]]
               IN /\ gameRooms' = [gameRooms EXCEPT ![r].gameState = finalizeCurrentAuction(g1)]
                  /\ ghost' = [ghost EXCEPT ![r] = IF CanFinalize(g1) THEN GhostLotEnd(@) ELSE @]
                  /\ out' = Sent("timer", r, <<>>,
                                 FinalizeBroadcasts(g1) \o <<"auction_state_update">>)
          ELSE /\ gameRooms' = [gameRooms EXCEPT ![r].gameState.timer.endTime = endTime]
               /\ out' = Sent("timer", r, <<>>, <<"auction_state_update">>)
               /\ UNCHANGED ghost
    /\ UNCHANGED <<clients, ids>>

\* ------------------------------------------------------------ AI helper
\* mutant of LlmReply: the response is sent whatever the socket's state
LlmReply_Always(cl, c) == <<"llm_response">>

\* sendToClient(ws, {type: 'llm_response', ...}) (lines 137-138, 609): nothing is
\* sent to a socket that is no longer open
LlmReply(cl, c) == IF cl[c].readyState = "OPEN" THEN <<"llm_response">> ELSE <<>>

\* case 'llm_query' up to its await (lines 607-608, 239-281). Without a configured
\* model handleLlmQuery returns at once and the response is sent before any other
\* handler runs; otherwise the handler is suspended until the API call settles. One
\* suspended query per socket is kept
LlmQuery(c, available) ==
    /\ clients[c].readyState = "OPEN"
    /\ IF ~InRoom(c) THEN Reject("llm_query", c) /\ UNCHANGED llm
       ELSE IF ~available
       THEN /\ out' = Sent("llm_query", clients[c].roomId, LlmReply(clients, c), <<>>)
            /\ UNCHANGED <<clients, gameRooms, ids, ghost, llm>>
       ELSE /\ c \notin llm
            /\ llm' = llm \cup {c}
            /\ out' = Sent("llm_query", clients[c].roomId, <<>>, <<>>)
            /\ UNCHANGED <<clients, gameRooms, ids, ghost>>

\* the rest of case 'llm_query' (lines 282-288, 609-613): the API call settled, with
\* an answer or with an error that is turned into an apology text, and the text is
\* sent to the caller
LlmResponse(c) ==
    /\ c \in llm
    /\ llm' = llm \ {c}
    /\ out' = Sent("llm_response", NULL, LlmReply(clients, c), <<>>)
    /\ UNCHANGED <<clients, gameRooms, ids, ghost>>

\* ----------------------------------------------------------------- inputs
BasePrices == {100}
BadPrice == 0 - 1
BidAmounts == {104, 105, 110, 111}
StartingBudgets == {100}
IncrementPercents == {10}
RoundDurations == {5}
SettingsInputs ==
    [playerStartingBudget : StartingBudgets \cup {99},
     minBidIncrementPercentage : IncrementPercents,
     auctionRoundDuration : RoundDurations]
BatchInputs == {<<>>, <<BadPrice, 100>>}
Roles == {"auctioneer", "player", "guest"}
PlayerIds == 1..MaxPlayers
ItemIds == 1..(MaxItems + 1)

\* every handler but update_settings
NextDefaultSettings ==
    \/ \E c \in Conns : Connection(c)
    \/ \E c \in Conns : CreateRoom(c)
    \/ \E c \in Conns, r \in RoomIds \cup {NULL} : JoinRoom(c, r)
    \/ \E c \in Conns, r \in RoomIds \cup {NULL}, role \in Roles, p \in PlayerIds :
           ReconnectSession(c, r, role, p)
    \/ \E c \in Conns, p \in PlayerIds, ok \in BOOLEAN : SetPlayerName(c, p, ok)
    \/ \E c \in Conns, b \in BasePrices \cup {BadPrice} : AddItem(c, b)
    \/ \E c \in Conns, b \in BatchInputs : AddBatchItems(c, b)
    \/ \E c \in Conns, i \in ItemIds : SelectItemForAuction(c, i)
    \/ \E c \in Conns : StartBidding(c)
    \/ \E c \in Conns : FinalizeItem(c)
    \/ \E c \in Conns : ClearAuction(c)
    \/ \E c \in Conns, p \in PlayerIds, b \in BidAmounts : PlaceBid(c, p, b)
    \/ \E c \in Conns : UnknownMessage(c)
    \/ \E c \in Conns : Close(c)
    \/ \E r \in RoomIds, late \in BOOLEAN : TimerCallback(r, late)

Next ==
    \/ NextDefaultSettings
    \/ \E c \in Conns, s \in SettingsInputs : UpdateSettings(c, s)

Spec == Init /\ [][Next]_vars

\* a room whose auctioneer has added two items (create_room, then add_item twice or
\* one add_batch_items); the runs that start here auction more than one item, under
\* the default settings
InitTwoItems ==
    LET gs0 == createNewGameState
        gs == [gs0 EXCEPT !.players = Extend(gs0.players, 1, NewPlayer(gs0, 1)),
                          !.items = <<NewItem(1, 100), NewItem(2, 100)>>]
    IN /\ clients = [c \in Conns |->
                        IF c = 1 THEN [readyState |-> "OPEN", roomId |-> 1,
                                       playerId |-> 1, role |-> "auctioneer"]
                        ELSE [readyState |-> "NONE", roomId |-> NULL,
                              playerId |-> NULL, role |-> "guest"]]
       /\ gameRooms = Extend(<<>>, 1, [gameState |-> gs, auctioneerPlayerId |-> 1,
                                       activeAuctioneerWsId |-> 1])
       /\ ids = [room |-> 1, player |-> 1, item |-> 2]
       /\ ghost = Extend(<<>>, 1, GhostJoin(GhostInit, 1, gs.players[1].budget))
       /\ out = Sent("add_item", 1, <<>>, <<"item_added", "auction_state_update">>)
       /\ llm = {}

SpecTwoItems == InitTwoItems /\ [][NextDefaultSettings]_vars

\* two rooms, each created by its own connection (connection, create_room, twice);
\* the runs that start here rebind connections across rooms and close them
TwoRooms == MaxRooms + 1
TwoRoomIds == 1..TwoRooms

InitTwoRooms ==
    LET gs0 == createNewGameState
        room(c) == [gameState |-> [gs0 EXCEPT !.players = Extend(gs0.players, c, NewPlayer(gs0, c))],
                    auctioneerPlayerId |-> c, activeAuctioneerWsId |-> c]
    IN /\ clients = [c \in Conns |-> [readyState |-> "OPEN", roomId |-> c,
                                      playerId |-> c, role |-> "auctioneer"]]
       /\ gameRooms = [r \in TwoRoomIds |-> room(r)]
       /\ ids = [room |-> TwoRooms, player |-> MaxPlayers, item |-> 0]
       /\ ghost = [r \in TwoRoomIds |->
                      GhostJoin(GhostInit, r, gs0.gameSettings.playerStartingBudget)]
       /\ out = Sent("create_room", TwoRooms, <<"room_created", "joined_room">>,
                     <<"info", "auction_state_update">>)
       /\ llm = {}

NextTwoRooms ==
    \/ \E c \in Conns, r \in TwoRoomIds \cup {NULL} : JoinRoom(c, r)
    \/ \E c \in Conns, r \in TwoRoomIds \cup {NULL}, role \in Roles, p \in PlayerIds :
           ReconnectSession(c, r, role, p)
    \/ \E c \in Conns, b \in BasePrices \cup {BadPrice} : AddItem(c, b)
    \/ \E c \in Conns, i \in ItemIds : SelectItemForAuction(c, i)
    \/ \E c \in Conns : ClearAuction(c)
    \/ \E c \in Conns : Close(c)

SpecTwoRooms == InitTwoRooms /\ [][NextTwoRooms]_vars

\* a room with one pending item, its auctioneer on socket 1 and a second socket
\* connected (connection twice, create_room, add_item); the runs that start here
\* auction the item while AI helper queries are in flight
InitLlm ==
    LET gs0 == createNewGameState
        gs == [gs0 EXCEPT !.players = Extend(gs0.players, 1, NewPlayer(gs0, 1)),
                          !.items = <<NewItem(1, 100)>>]
    IN /\ clients = [c \in Conns |->
                        IF c = 1 THEN [readyState |-> "OPEN", roomId |-> 1,
                                       playerId |-> 1, role |-> "auctioneer"]
                        ELSE [readyState |-> "OPEN", roomId |-> NULL,
                              playerId |-> NULL, role |-> "guest"]]
       /\ gameRooms = Extend(<<>>, 1, [gameState |-> gs, auctioneerPlayerId |-> 1,
                                       activeAuctioneerWsId |-> 1])
       /\ ids = [room |-> 1, player |-> 1, item |-> 1]
       /\ ghost = Extend(<<>>, 1, GhostJoin(GhostInit, 1, gs.players[1].budget))
       /\ out = Sent("add_item", 1, <<>>, <<"item_added", "auction_state_update">>)
       /\ llm = {}

NextLlm ==
    \/ \E c \in Conns, r \in RoomIds : JoinRoom(c, r)
    \/ \E c \in Conns, i \in ItemIds : SelectItemForAuction(c, i)
    \/ \E c \in Conns : StartBidding(c)
    \/ \E c \in Conns : FinalizeItem(c)
    \/ \E c \in Conns : ClearAuction(c)
    \/ \E c \in Conns, p \in PlayerIds, b \in BidAmounts : PlaceBid(c, p, b)
    \/ \E c \in Conns : Close(c)
    \/ \E r \in RoomIds, late \in BOOLEAN : TimerCallback(r, late)
    \/ \E c \in Conns, available \in BOOLEAN : LlmQuery(c, available)
    \/ \E c \in Conns : LlmResponse(c)

SpecLlm == InitLlm /\ [][NextLlm]_vars

\* ------------------------------------------------------- claims C1 - C10
Rooms == DOMAIN gameRooms
GS(r) == gameRooms[r].gameState
Players(r) == DOMAIN GS(r).players

RECURSIVE SumFinalBids(_)
SumFinalBids(won) == IF won = <<>> THEN 0 ELSE Head(won).finalBid + SumFinalBids(Tail(won))

\* budgets, sale prices and the escrowed bid of room r
TotalMoney(r) ==
    SumOver([p \in Players(r) |-> GS(r).players[p].budget + SumFinalBids(GS(r).players[p].wonItems)],
            Players(r))
    + (IF GS(r).currentHighestBidder # NULL THEN GS(r).currentHighestBid ELSE 0)

\* C1: money conservation: budgets + sale prices of won items + the escrowed highest
\* bid equal the starting budgets the players were created with, in every state
MoneyConserved ==
    \A r \in Rooms : TotalMoney(r) = SumOver(ghost[r].startBudget, Players(r))

\* C2: no player's budget is ever negative
BudgetNonNegative ==
    \A r \in Rooms : \A p \in Players(r) : GS(r).players[p].budget >= 0

\* C2 witness: a bid was accepted and its bidder holds less than it started with
BudgetDebited ==
    /\ out.op = "place_bid"
    /\ \E r \in Rooms : \E p \in Players(r) :
           /\ GS(r).currentHighestBidder = p
           /\ GS(r).players[p].budget < ghost[r].startBudget[p]

\* C3: while a highest bidder is present, the amount debited from it since the lot
\* was selected is exactly currentHighestBid, and nobody else is debited for the lot
EscrowMatchesDebit ==
    \A r \in Rooms :
        GS(r).currentHighestBidder # NULL =>
            \A p \in Players(r) :
                ghost[r].lotDebit[p] = IF p = GS(r).currentHighestBidder
                                       THEN GS(r).currentHighestBid ELSE 0

\* C4: currentAuctionItem is present iff auctionState is item_selected or bidding
LotIffActive ==
    \A r \in Rooms :
        (GS(r).currentAuctionItem # NULL) <=> (GS(r).auctionState \in {"item_selected", "bidding"})

\* C4 witness: the timer expired on a lot and left the room idle with no lot
LotSettledByTimer ==
    /\ out.op = "timer"
    /\ \E r \in Rooms :
           /\ out.room = r
           /\ GS(r).auctionState = "idle"
           /\ GS(r).currentAuctionItem = NULL
           /\ \E i \in DOMAIN GS(r).items : GS(r).items[i].status \in {"sold", "pending"}

\* C5: at most one item is auctioning, and an item is auctioning iff it is the lot
OneAuctioning ==
    \A r \in Rooms :
        /\ Cardinality({i \in DOMAIN GS(r).items : GS(r).items[i].status = "auctioning"}) <= 1
        /\ \A i \in DOMAIN GS(r).items :
               (GS(r).items[i].status = "auctioning") <=> (GS(r).items[i].id = GS(r).currentAuctionItem)

\* C5 witness: one item has been sold and another one is the lot being auctioned
SecondLotAuctioning ==
    \E r \in Rooms : \E i, j \in DOMAIN GS(r).items :
        /\ GS(r).items[i].status = "sold"
        /\ GS(r).items[j].status = "auctioning"
        /\ GS(r).items[j].id = GS(r).currentAuctionItem

\* rooms that exist before and after a step
BothRooms == DOMAIN gameRooms \cap DOMAIN gameRooms'

\* C6 as stated: within a bidding phase currentHighestBid never decreases from one
\* state to the next, whatever happens (bids, disconnects, settings updates, timer)
BidNeverDecreases ==
    [][\A r \in BothRooms :
           (GS(r).auctionState = "bidding" /\ GS(r)'.auctionState = "bidding")
               => GS(r)'.currentHighestBid >= GS(r).currentHighestBid]_vars

\* C6 amended: within a bidding phase currentHighestBid never decreases, except when
\* a socket bound to the highest bidder closes: then the bidder is cleared and the
\* bid is reset to the lot's base price
BidNeverDecreasesUnlessRetracted ==
    [][\A r \in BothRooms :
           (GS(r).auctionState = "bidding" /\ GS(r)'.auctionState = "bidding")
               => \/ GS(r)'.currentHighestBid >= GS(r).currentHighestBid
                  \/ /\ out'.op = "close"
                     /\ GS(r).currentHighestBidder # NULL
                     /\ GS(r)'.currentHighestBidder = NULL
                     /\ GS(r)'.currentHighestBid =
                            ItemOf(GS(r), GS(r).currentAuctionItem).basePrice]_vars

\* C6 witness: a second bid was accepted on a lot and raised the highest bid
BidRaised ==
    /\ out.op = "place_bid"
    /\ \E r \in Rooms :
           /\ ghost[r].bids >= 2
           /\ GS(r).auctionState = "bidding"
           /\ GS(r).currentHighestBid > ItemOf(GS(r), GS(r).currentAuctionItem).basePrice

\* C7 as stated: an accepted bid sets the remaining time to exactly the current
\* auctionRoundDuration and never leaves it lower than before the bid
BidExtendsTimer ==
    [][\A r \in BothRooms :
           (out'.op = "place_bid" /\ out'.room = r)
               => /\ GS(r)'.timer.endTime = GS(r)'.gameSettings.auctionRoundDuration
                  /\ GS(r)'.timer.endTime >= GS(r).timer.endTime]_vars

\* C7 amended: an accepted bid sets the remaining time to exactly the current
\* auctionRoundDuration; this is not lower than before the bid unless
\* auctionRoundDuration was lowered since the timer was last armed or reset
BidResetsTimer ==
    [][\A r \in BothRooms :
           (out'.op = "place_bid" /\ out'.room = r)
               => /\ GS(r)'.timer.active
                  /\ GS(r)'.timer.endTime = GS(r)'.gameSettings.auctionRoundDuration
                  /\ (GS(r).gameSettings.auctionRoundDuration >= ghost[r].armedDuration
                         => GS(r)'.timer.endTime >= GS(r).timer.endTime)]_vars

\* C7 witness: a bid was accepted after the round duration had been changed
BidAfterDurationChange ==
    /\ out.op = "place_bid"
    /\ \E r \in Rooms :
           /\ GS(r).timer.endTime = GS(r).gameSettings.auctionRoundDuration
           /\ GS(r).gameSettings.auctionRoundDuration # DEFAULT_GAME_SETTINGS.auctionRoundDuration
           /\ SumOver(ghost[r].startBudget, Players(r)) = 2 * DEFAULT_GAME_SETTINGS.playerStartingBudget

\* C8: finalize outside bidding is a no-op: in every state whose auctionState is not
\* bidding, finalizeCurrentAuction (as the auctioneer and the timer call it) returns
\* the game state as it is and broadcasts nothing, and a finalize_item handled in
\* such a state leaves sockets, rooms and counters unchanged and sends nothing
FinalizeIdempotent ==
    [][\A r \in Rooms :
           GS(r).auctionState # "bidding"
               => /\ finalizeCurrentAuction(GS(r)) = GS(r)
                  /\ FinalizeBroadcasts(GS(r)) = <<>>
                  /\ (out'.op = "finalize_item" /\ out'.room = r)
                         => /\ UNCHANGED <<clients, gameRooms, ids>>
                            /\ out'.reply = <<>>
                            /\ out'.bcast = <<>>]_vars

\* C8 witness: finalize_item ran on a lot that was only selected and did nothing
FinalizeDidNothing ==
    /\ out.op = "finalize_item"
    /\ out.bcast = <<>>
    /\ \E r \in Rooms : out.room = r /\ GS(r).auctionState = "item_selected"

\* C9: when reconnect_session succeeds for a player one of whose sockets closed
\* before, budget and wonItems are what they were when that socket closed
ReconnectPreserves ==
    [][\A r \in BothRooms : \A p \in Players(r) :
           (/\ out'.op = "reconnect_session"
            /\ out'.room = r
            /\ ghost[r].snap[p].set
            /\ ~ghost'[r].snap[p].set)
               => /\ GS(r)'.players[p].budget = ghost[r].snap[p].budget
                  /\ GS(r)'.players[p].wonItems = ghost[r].snap[p].wonItems]_vars

\* C10: a rejected operation (an error reply, or finalize_item outside bidding)
\* leaves rooms, bindings and timers unchanged
RejectionChangesNothing ==
    [][(\/ out'.op = "rejected"
        \/ out'.op = "finalize_item" /\ out'.bcast = <<>>)
           => UNCHANGED <<clients, gameRooms, ids>>]_vars

\* C10 witness: an operation was rejected while a bid was standing
RejectedDuringBidding ==
    /\ out.op = "rejected"
    /\ \E r \in Rooms : GS(r).auctionState = "bidding" /\ GS(r).currentHighestBidder # NULL

\* ------------------------------------------------------ claims C11 - C20
\* the caller of the step is sent an error message
ErrorSent == \E i \in DOMAIN out'.reply : out'.reply[i] = "error"

\* C11: select_item_for_auction, start_bidding or finalize_item attempted from the
\* wrong auctionState, and any auctioneer-only operation attempted by a caller who
\* is not the auctioneer, sends the caller an error message
WrongStateOrRoleReportsError ==
    [][\A c \in Conns :
           (clients[c].readyState = "OPEN" /\ InRoom(c)) =>
               LET gs == GS(clients[c].roomId)
               IN /\ ((\E i \in ItemIds : SelectItemForAuction(c, i))
                         /\ (~IsAuctioneer(c) \/ gs.auctionState # "idle")) => ErrorSent
                  /\ (StartBidding(c)
                         /\ (~IsAuctioneer(c) \/ gs.auctionState # "item_selected")) => ErrorSent
                  /\ (FinalizeItem(c)
                         /\ (~IsAuctioneer(c) \/ gs.auctionState # "bidding")) => ErrorSent
                  /\ ((\/ ClearAuction(c)
                       \/ \E b \in BasePrices : AddItem(c, b)
                       \/ \E b \in BatchInputs : AddBatchItems(c, b)
                       \/ \E s \in SettingsInputs : UpdateSettings(c, s))
                         /\ ~IsAuctioneer(c)) => ErrorSent]_vars

\* the requests only the auctioneer may make, as sent by connection c
AuctioneerOnlyRequest(c) ==
    \/ \E s \in SettingsInputs : UpdateSettings(c, s)
    \/ \E b \in BasePrices \cup {BadPrice} : AddItem(c, b)
    \/ \E b \in BatchInputs : AddBatchItems(c, b)
    \/ \E i \in ItemIds : SelectItemForAuction(c, i)
    \/ StartBidding(c)
    \/ FinalizeItem(c)
    \/ ClearAuction(c)

\* connection c is open and bound to room r as the player with the auctioneer's id
BoundAsAuctioneer(c, r) ==
    /\ clients[c].readyState = "OPEN"
    /\ clients[c].roomId = r
    /\ clients[c].playerId = gameRooms[r].auctioneerPlayerId

\* C12: every handled settings update, item addition, select, start, finalize and
\* clear is the request of a connection bound to the auctioneer's playerId, and
\* such a request from a connection bound to another playerId changes nothing
OnlyAuctioneerDrives ==
    [][/\ \A r \in BothRooms :
              (out'.room = r /\ out'.op \in {"update_settings", "add_item", "add_batch_items",
                                             "select_item_for_auction", "start_bidding",
                                             "finalize_item", "clear_auction"})
                  => \E c \in Conns : BoundAsAuctioneer(c, r) /\ AuctioneerOnlyRequest(c)
       /\ (gameRooms' # gameRooms \/ ids' # ids \/ clients' # clients)
              => \A c \in Conns :
                     (/\ clients[c].readyState = "OPEN"
                      /\ InRoom(c)
                      /\ ~BoundAsAuctioneer(c, clients[c].roomId))
                         => ~AuctioneerOnlyRequest(c)]_vars

\* C12 witness: bidding was started in a room to which a connection is bound as
\* another player than the auctioneer
StartedBesidePlayer ==
    /\ out.op = "start_bidding"
    /\ \E c \in Conns :
           /\ clients[c].readyState = "OPEN"
           /\ clients[c].roomId = out.room
           /\ clients[c].playerId # gameRooms[out.room].auctioneerPlayerId

\* the acceptance condition C13 states for place_bid(playerId, bid) from connection c,
\* with the exact ceiling: bid >= ceil(h * (100 + pct) / 100) iff bid * 100 >= h * (100 + pct)
BidAcceptable(c, playerId, bid) ==
    LET gs == GS(clients[c].roomId)
    IN /\ clients[c].playerId = playerId
       /\ playerId \in DOMAIN gs.players
       /\ gs.auctionState = "bidding"
       /\ bid * 100 >= gs.currentHighestBid * (100 + gs.gameSettings.minBidIncrementPercentage)
       /\ bid <= gs.players[playerId].budget

\* C13: place_bid is accepted iff the caller is bound to playerId, the player
\* exists, the state is bidding, bid >= ceil(highest * (1 + pct/100)) and
\* bid <= budget; an accepted bid becomes currentHighestBid, its player the highest
\* bidder, and the player's budget decreases by exactly the bid
BidAcceptedIff ==
    [][\A c \in Conns : \A p \in PlayerIds : \A b \in BidAmounts :
           (clients[c].readyState = "OPEN" /\ InRoom(c) /\ PlaceBid(c, p, b)) =>
               LET r == clients[c].roomId
               IN /\ (out'.op = "place_bid") <=> BidAcceptable(c, p, b)
                  /\ (out'.op = "place_bid") =>
                         /\ GS(r)'.currentHighestBid = b
                         /\ GS(r)'.currentHighestBidder = p
                         /\ GS(r)'.players[p].budget = GS(r).players[p].budget - b]_vars

\* C14: when a bid is accepted while another player holds the highest bid, that
\* player's budget is credited by exactly the previous currentHighestBid in the same
\* step, whatever the state of its connection
OutbidRefunded ==
    [][\A r \in BothRooms :
           (/\ out'.op = "place_bid"
            /\ out'.room = r
            /\ GS(r).currentHighestBidder # NULL
            /\ GS(r)'.currentHighestBidder # GS(r).currentHighestBidder)
               => GS(r)'.players[GS(r).currentHighestBidder].budget =
                      GS(r).players[GS(r).currentHighestBidder].budget + GS(r).currentHighestBid]_vars

\* the state of the scenario of C15 in room r: default starting budgets and increment,
\* a lot of base price 100 in bidding, player a (connected) holds the highest bid 105
\* as its only debit, player b has made no bid
AfterFirstBid105(r, a, b) ==
    /\ a # b /\ a \in Players(r) /\ b \in Players(r)
    /\ GS(r).auctionState = "bidding"
    /\ ItemOf(GS(r), GS(r).currentAuctionItem).basePrice = 100
    /\ GS(r).gameSettings.minBidIncrementPercentage = DEFAULT_GAME_SETTINGS.minBidIncrementPercentage
    /\ ghost[r].startBudget[a] = DEFAULT_GAME_SETTINGS.playerStartingBudget
    /\ ghost[r].startBudget[b] = DEFAULT_GAME_SETTINGS.playerStartingBudget
    /\ GS(r).currentHighestBidder = a /\ GS(r).currentHighestBid = 105
    /\ GS(r).players[a].budget = 4895 /\ GS(r).players[b].budget = 5000
    /\ IsOpen(clients, GS(r).players[a].ws)

\* C15 as stated: after A's bid of 105, B's bid of 110 leaves A with 5000, B with
\* 4890 and B the highest bidder
SecondBid110Outbids ==
    [][\A r \in BothRooms : \A a, b \in PlayerIds : \A c \in Conns :
           (/\ AfterFirstBid105(r, a, b)
            /\ clients[c].readyState = "OPEN" /\ clients[c].roomId = r
            /\ clients[c].playerId = b
            /\ PlaceBid(c, b, 110))
               => /\ GS(r)'.players[a].budget = 5000
                  /\ GS(r)'.players[b].budget = 4890
                  /\ GS(r)'.currentHighestBidder = b]_vars

\* C15 amended: after A's bid of 105 the minimum is ceil(105 * 1.05) = 111: B's bid
\* of 110 is rejected with an error and changes nothing; B's bid of 111 leaves A
\* with 5000, B with 4889 and B the highest bidder with currentHighestBid 111
SecondBid111Outbids ==
    [][\A r \in BothRooms : \A a, b \in PlayerIds : \A c \in Conns :
           (/\ AfterFirstBid105(r, a, b)
            /\ clients[c].readyState = "OPEN" /\ clients[c].roomId = r
            /\ clients[c].playerId = b)
               => /\ PlaceBid(c, b, 110) => (ErrorSent /\ UNCHANGED <<clients, gameRooms, ids>>)
                  /\ PlaceBid(c, b, 111) =>
                         /\ GS(r)'.players[a].budget = 5000
                         /\ GS(r)'.players[b].budget = 4889
                         /\ GS(r)'.currentHighestBidder = b
                         /\ GS(r)'.currentHighestBid = 111]_vars

\* C15 witness: the second player's bid of 111 was accepted over the first one's 105
OutbidWith111 ==
    /\ out.op = "place_bid"
    /\ \E r \in Rooms : \E a, b \in Players(r) :
           /\ a # b
           /\ ghost[r].bids = 2
           /\ ghost[r].lotDebit[a] = 0 /\ ghost[r].lotDebit[b] = 111
           /\ GS(r).currentHighestBidder = b /\ GS(r).currentHighestBid = 111
           /\ GS(r).players[a].budget = 5000 /\ GS(r).players[b].budget = 4889

\* the timer callback of room r runs with no whole second left
TimerExpires(r) ==
    \E late \in BOOLEAN :
        /\ TimerCallback(r, late)
        /\ RemainingTime(Max(0, GS(r).timer.endTime - Elapsed(GS(r).timer)), late) <= 0

\* the step is a finalize_item of the auctioneer of room r or the expiry of its timer
SettlementStep(r) ==
    /\ out'.room = r
    /\ \/ out'.op = "finalize_item"
       \/ out'.op = "timer" /\ TimerExpires(r)

\* the lot of room r is over: no lot, no bid, no bidder, idle, timer inactive
LotOver(gs) ==
    /\ gs.currentAuctionItem = NULL
    /\ gs.currentHighestBid = 0
    /\ gs.currentHighestBidder = NULL
    /\ gs.auctionState = "idle"
    /\ ~gs.timer.active /\ ~gs.timer.interval

\* C16: finalize_item or timer expiry in bidding with a highest bidder appends exactly
\* one entry {item, finalBid = currentHighestBid} to that player's wonItems, marks
\* the item sold, changes no budget, and leaves no lot, bid 0, no bidder, idle and
\* the timer inactive
SettlementWithWinner ==
    [][\A r \in BothRooms :
           (/\ GS(r).auctionState = "bidding"
            /\ GS(r).currentHighestBidder # NULL
            /\ SettlementStep(r))
               => LET w == GS(r).currentHighestBidder
                      lot == GS(r).currentAuctionItem
                  IN /\ GS(r)'.players[w].wonItems =
                            Append(GS(r).players[w].wonItems,
                                   [id |-> lot, finalBid |-> GS(r).currentHighestBid])
                     /\ \A p \in Players(r) \ {w} :
                            GS(r)'.players[p].wonItems = GS(r).players[p].wonItems
                     /\ ItemOf(GS(r)', lot).status = "sold"
                     /\ \A p \in Players(r) : GS(r)'.players[p].budget = GS(r).players[p].budget
                     /\ LotOver(GS(r)')]_vars

\* C16 witness: the timer expired on a standing bid of 105 and its bidder won the item
SoldAtTimerExpiry ==
    /\ out.op = "timer"
    /\ \E r \in Rooms : \E p \in Players(r) :
           /\ out.room = r
           /\ LotOver(GS(r))
           /\ GS(r).players[p].wonItems = <<[id |-> 1, finalBid |-> 105]>>
           /\ ItemOf(GS(r), 1).status = "sold"

\* player p's budget when bidding on the current lot of room r started: budgets
\* change only by the debits and refunds of bids between start_bidding and the end
\* of the lot, and ghost.lotDebit is their net amount
BudgetAtStartBidding(r, p) == GS(r).players[p].budget + ghost[r].lotDebit[p]

\* C17: finalize_item or timer expiry in bidding with no highest bidder returns the
\* item to pending, makes the state idle, adds no wonItems entry, and leaves every
\* player's budget at its value when bidding started
NoBidSettlement ==
    [][\A r \in BothRooms :
           (/\ GS(r).auctionState = "bidding"
            /\ GS(r).currentHighestBidder = NULL
            /\ SettlementStep(r))
               => /\ ItemOf(GS(r)', GS(r).currentAuctionItem).status = "pending"
                  /\ GS(r)'.auctionState = "idle"
                  /\ \A p \in Players(r) :
                         /\ GS(r)'.players[p].wonItems = GS(r).players[p].wonItems
                         /\ GS(r)'.players[p].budget = BudgetAtStartBidding(r, p)]_vars


\* the auction fields of gs hold an escrowed bid: bidding, with a highest bidder
EscrowHeld(gs) ==
    /\ gs.auctionState = "bidding"
    /\ gs.currentHighestBidder # NULL
    /\ gs.currentHighestBidder \in DOMAIN gs.players

\* the abort of the lot of room r in a step: the lot is over, an item that was
\* auctioning is pending again, no wonItems entry is added, the holder of an escrowed
\* bid is credited exactly that bid and no other budget changes
LotAborted(r) ==
    /\ LotOver(GS(r)')
    /\ GS(r).currentAuctionItem # NULL
           => ItemOf(GS(r)', GS(r).currentAuctionItem).status = "pending"
    /\ \A p \in Players(r) :
           /\ GS(r)'.players[p].wonItems = GS(r).players[p].wonItems
           /\ GS(r)'.players[p].budget =
                  GS(r).players[p].budget
                      + (IF EscrowHeld(GS(r)) /\ p = GS(r).currentHighestBidder
                         THEN GS(r).currentHighestBid ELSE 0)

AuctioneerSocketCloses(r) ==
    /\ out'.op = "close"
    /\ \E c \in DOMAIN clients :
           /\ clients[c].readyState = "OPEN"
           /\ clients'[c].readyState = "CLOSED"
           /\ clients[c].roomId = r
           /\ clients[c].playerId = gameRooms[r].auctioneerPlayerId

\* C19: when the auctioneer's connection closes during a lot the lot is aborted as by
\* clear_auction: the item is pending, the state idle, no lot, no bidder, the timer
\* stopped, and whoever holds the highest bid (the auctioneer's own player included)
\* is credited exactly currentHighestBid
AuctioneerCloseAborts ==
    [][\A r \in BothRooms :
           (GS(r).currentAuctionItem # NULL /\ AuctioneerSocketCloses(r))
               => LotAborted(r)]_vars


\* the step closes socket c, which was bound to player pid of room r, and pid is not
\* the auctioneer's player
PlayerSocketCloses(r, c, pid) ==
    /\ out'.op = "close"
    /\ clients[c].readyState = "OPEN"
    /\ clients'[c].readyState = "CLOSED"
    /\ clients[c].roomId = r
    /\ clients[c].playerId = pid
    /\ pid \in Players(r)
    /\ pid # gameRooms[r].auctioneerPlayerId

\* C20: when the connection of a non-auctioneer player closes (and the room is not
\* deleted by that close) the Player entity stays, with only its connection cleared;
\* if the player held the highest bid the bidder becomes absent, the bid becomes the
\* lot's basePrice, the timer is reset to a full round and the state stays bidding;
\* otherwise the auction fields and the timer are unchanged
PlayerCloseRetracts ==
    [][\A r \in BothRooms : \A c \in DOMAIN clients : \A pid \in Players(r) :
           PlayerSocketCloses(r, c, pid)
               => /\ GS(r)'.players = [GS(r).players EXCEPT ![pid].ws = NULL]
                  /\ GS(r)'.items = GS(r).items
                  /\ GS(r)'.gameSettings = GS(r).gameSettings
                  /\ GS(r)'.currentAuctionItem = GS(r).currentAuctionItem
                  /\ IF GS(r).currentHighestBidder = pid
                     THEN /\ GS(r)'.currentHighestBidder = NULL
                          /\ GS(r)'.currentHighestBid =
                                 ItemOf(GS(r), GS(r).currentAuctionItem).basePrice
                          /\ GS(r)'.timer.active
                          /\ GS(r)'.timer.endTime = GS(r).gameSettings.auctionRoundDuration
                          /\ GS(r).auctionState = "bidding"
                          /\ GS(r)'.auctionState = "bidding"
                     ELSE GS(r)' = [GS(r) EXCEPT !.players[pid].ws = NULL]]_vars

\* C20 witness: the socket of the bidder of 105 closed: the bid is retracted to the
\* base price 100, the round is full again, and the player is still in the room,
\* debited and without a connection
BidRetractedOnClose ==
    /\ out.op = "close"
    /\ \E r \in Rooms : \E p \in Players(r) :
           /\ out.room = r
           /\ p # gameRooms[r].auctioneerPlayerId
           /\ GS(r).players[p].ws = NULL
           /\ GS(r).players[p].budget = DEFAULT_GAME_SETTINGS.playerStartingBudget - 105
           /\ GS(r).auctionState = "bidding"
           /\ GS(r).currentHighestBidder = NULL
           /\ GS(r).currentHighestBid = 100
           /\ GS(r).timer.endTime = GS(r).gameSettings.auctionRoundDuration


\* ------------------------------------------------------ claims C21 - C30
\* socket c is open and bound to room r in the sockets cl
BoundOpen(cl, c, r) == cl[c].readyState = "OPEN" /\ cl[c].roomId = r

\* C21: a room is never deleted from the registry while an open connection is still
\* bound to it, also when an identity was rebound by reconnect_session to a newer
\* connection before an older connection of that identity closes
RoomKeptWhileBound ==
    [][\A r \in DOMAIN gameRooms :
           r \notin DOMAIN gameRooms'
               => \A c \in DOMAIN clients : ~BoundOpen(clients', c, r)]_vars


\* C22: room garbage collection is complete: once every connection that was ever
\* bound to a room has closed, the room is no longer in the registry. When no
\* connection at all is open, every connection ever bound to any room has closed,
\* so the registry must then be empty
RegistryEmptyOnceAllClosed ==
    (\A c \in DOMAIN clients : clients[c].readyState # "OPEN") => DOMAIN gameRooms = {}


\* the step is a rejection: nothing but the reply to the caller changes
RejectedUnchanged ==
    /\ out'.op = "rejected"
    /\ out'.reply # <<>>
    /\ out'.bcast = <<>>
    /\ UNCHANGED <<clients, gameRooms, ids>>

\* C23: create_room and join_room from a connection that is already bound to a room,
\* and join_room with a room code that is not in the registry, are rejected: no room
\* and no Player is created and the caller's binding is unchanged
CreateJoinRejected ==
    [][\A c \in Conns :
           clients[c].readyState = "OPEN"
               => /\ (clients[c].roomId # NULL
                        /\ (CreateRoom(c) \/ \E r \in RoomIds \cup {NULL} : JoinRoom(c, r)))
                      => RejectedUnchanged
                  /\ (clients[c].roomId = NULL
                        /\ \E r \in (RoomIds \cup {NULL}) \ DOMAIN gameRooms : JoinRoom(c, r))
                      => RejectedUnchanged]_vars

\* C23 witness: an unbound connection's join_room named a room that is not
\* registered and was answered with room_not_found
JoinUnknownRoomRejected ==
    /\ out.op = "rejected"
    /\ out.reply = <<"room_not_found">>
    /\ \E c \in Conns : clients[c].readyState = "OPEN" /\ clients[c].roomId = NULL


\* the two cases in which reconnect_session may succeed: role auctioneer with the
\* room's auctioneerPlayerId, or role player with the id of a Player of the room that
\* is not the auctioneer's (a role that does not match the identity must fail)
ReconnectAllowed(r, role, p) ==
    /\ r \in DOMAIN gameRooms
    /\ \/ role = "auctioneer" /\ p = gameRooms[r].auctioneerPlayerId
       \/ /\ role = "player"
          /\ p \in Players(r)
          /\ p # gameRooms[r].auctioneerPlayerId

\* C24: reconnect_session succeeds only with role auctioneer and the room's
\* auctioneerPlayerId, or with role player and an existing Player of the room; every
\* other combination (unknown room, unknown player, a role that does not match the
\* identity, such as role player with the auctioneer's playerId) fails with an error
\* and binds nothing
ReconnectOnlyMatching ==
    [][\A c \in Conns, r \in RoomIds \cup {NULL}, role \in Roles, p \in PlayerIds :
           (/\ clients[c].readyState = "OPEN"
            /\ ~ReconnectAllowed(r, role, p)
            /\ ReconnectSession(c, r, role, p))
               => /\ ErrorSent
                  /\ UNCHANGED <<clients, gameRooms>>]_vars


\* the lot of gs is open: in bidding, on an item that is still auctioning
LotOpen(gs) ==
    /\ gs.auctionState = "bidding"
    /\ gs.currentAuctionItem # NULL
    /\ ItemOf(gs, gs.currentAuctionItem).status = "auctioning"

\* some budget of room r is lower after the step than before
Debited(r) == \E p \in Players(r) : GS(r)'.players[p].budget < GS(r).players[p].budget

\* C25: a timer-expiry settlement and a last-second bid never interleave. Handlers and
\* timer callbacks run one at a time, so every step is one whole handler: an accepted
\* bid finds the lot open, leaves it open and restarts the round in full, so that the
\* superseded expiry cannot settle it; a timer settlement happens only when the
\* current round has run out, and leaves a state in which bids are rejected; and a
\* budget is debited only by a bid accepted on an open lot
BidAndExpirySerialized ==
    [][\A r \in BothRooms :
           /\ (out'.op = "place_bid" /\ out'.room = r)
                  => /\ LotOpen(GS(r)) /\ LotOpen(GS(r)')
                     /\ GS(r)'.currentAuctionItem = GS(r).currentAuctionItem
                     /\ GS(r)'.timer = startAuctionTimer(GS(r)).timer
                     /\ \A late \in BOOLEAN :
                            RemainingTime(GS(r)'.timer.endTime, late) > 0
           /\ (out'.op = "timer" /\ out'.room = r /\ LotOpen(GS(r)) /\ ~LotOpen(GS(r)'))
               => /\ TimerExpires(r)
                  /\ LotOver(GS(r)')
                  /\ ~BiddingActive(GS(r)')
           /\ Debited(r) => (out'.op = "place_bid" /\ out'.room = r /\ LotOpen(GS(r)))]_vars

\* C25 witness: a second bid was accepted on a lot that is still open, and the round
\* runs again for its full duration
SecondBidRestartsRound ==
    /\ out.op = "place_bid"
    /\ \E r \in Rooms :
           /\ out.room = r
           /\ ghost[r].bids = 2
           /\ LotOpen(GS(r))
           /\ GS(r).timer.active
           /\ GS(r).timer.endTime = GS(r).gameSettings.auctionRoundDuration


\* the round timer of gs is armed: timer.active is set and a callback is scheduled
TimerArmed(gs) == gs.timer.active /\ gs.timer.interval

\* C26: in every registered room the round timer is armed (timer.active and a
\* scheduled callback) if and only if auctionState is bidding, and it is never half
\* armed: start_bidding arms it and every transition out of bidding disarms it
TimerArmedIffBidding ==
    \A r \in Rooms :
        /\ TimerArmed(GS(r)) <=> GS(r).auctionState = "bidding"
        /\ GS(r).timer.active <=> GS(r).timer.interval

\* C26 witness: clear_auction ended a lot that had taken a bid, and the timer that
\* start_bidding armed is disarmed
TimerDisarmedByClear ==
    /\ out.op = "clear_auction"
    /\ \E r \in Rooms :
           /\ out.room = r
           /\ ghost[r].bids >= 1
           /\ GS(r).auctionState = "idle"
           /\ ~GS(r).timer.active /\ ~GS(r).timer.interval


\* the number of wonItems entries of gs: the lots settled with a winner so far
WonCount(gs) ==
    SumOver([p \in DOMAIN gs.players |-> Len(gs.players[p].wonItems)], DOMAIN gs.players)

\* C27: timer-driven settlement happens exactly once per expired round. A timer
\* callback runs only for an armed timer of a room in bidding (a stopped timer never
\* fires); the callback at which the round has run out settles the lot in that step, by
\* one finalize (at most one wonItems entry), and leaves no callback scheduled that
\* could settle again; a callback before the current end of the round, in particular
\* after a reset moved that end, settles nothing
TimerSettlesOnce ==
    [][\A r \in BothRooms :
           (out'.op = "timer" /\ out'.room = r)
               => /\ TimerArmed(GS(r))
                  /\ LotOpen(GS(r))
                  /\ IF TimerExpires(r)
                     THEN /\ LotOver(GS(r)')
                          /\ ~GS(r)'.timer.interval
                          /\ ItemOf(GS(r)', GS(r).currentAuctionItem).status # "auctioning"
                          /\ WonCount(GS(r)') = WonCount(GS(r))
                                 + (IF GS(r).currentHighestBidder # NULL THEN 1 ELSE 0)
                     ELSE /\ LotOpen(GS(r)')
                          /\ TimerArmed(GS(r)')
                          /\ GS(r)'.players = GS(r).players
                          /\ GS(r)'.items = GS(r).items
                          /\ GS(r)'.currentHighestBid = GS(r).currentHighestBid
                          /\ GS(r)'.currentHighestBidder = GS(r).currentHighestBidder]_vars

\* C27 witness: a round that two bids had reset ran out and was settled by the timer:
\* one wonItems entry, the lot over and no callback scheduled
ResetRoundSettledOnce ==
    /\ out.op = "timer"
    /\ \E r \in Rooms :
           /\ out.room = r
           /\ ghost[r].bids = 2
           /\ LotOver(GS(r))
           /\ WonCount(GS(r)) = 1


\* the whole seconds of the round that are left at the instant the next callback is
\* due; the callback itself runs at that instant or a fraction of a second after it
SecondsLeftAtCallback(timer) == Max(0, timer.endTime - Elapsed(timer))

\* C28: the timer never settles a lot early: a timer callback settles the lot only at
\* an instant that is not before the round's current endTime, that is, only when no
\* second of the round is left when the callback is due
TimerNeverEarly ==
    [][\A r \in BothRooms :
           (out'.op = "timer" /\ out'.room = r /\ LotOpen(GS(r)) /\ ~LotOpen(GS(r)'))
               => SecondsLeftAtCallback(GS(r).timer) = 0]_vars


\* the condition under which select_item_for_auction(itemId) is to succeed in room r:
\* the state is idle and an item with that id and status pending exists
Selectable(r, itemId) ==
    /\ GS(r).auctionState = "idle"
    /\ \E i \in DOMAIN GS(r).items :
           GS(r).items[i].id = itemId /\ GS(r).items[i].status = "pending"

\* the effects of a successful select_item_for_auction(itemId) in room r
SelectedEffects(r, itemId) ==
    /\ ItemOf(GS(r), itemId).status = "pending"
    /\ ItemOf(GS(r)', itemId).status = "auctioning"
    /\ GS(r)'.currentAuctionItem = itemId
    /\ GS(r)'.currentHighestBid = ItemOf(GS(r), itemId).basePrice
    /\ GS(r)'.currentHighestBidder = NULL
    /\ GS(r)'.auctionState = "item_selected"
    /\ \A p \in Players(r) : GS(r)'.players[p].budget = GS(r).players[p].budget

\* C29: select_item_for_auction(itemId) by the auctioneer succeeds if and only if
\* auctionState is idle and a pending item with that id exists: a select that is
\* handled found that condition, and the auctioneer's select under that condition is
\* handled; on success that item is auctioning, it is the current lot,
\* currentHighestBid is its basePrice, there is no highest bidder, the state is
\* item_selected and every budget is unchanged
SelectSucceedsIff ==
    [][\A r \in BothRooms :
           /\ (out'.op = "select_item_for_auction" /\ out'.room = r)
                  => /\ GS(r)'.currentAuctionItem # NULL
                     /\ Selectable(r, GS(r)'.currentAuctionItem)
                     /\ SelectedEffects(r, GS(r)'.currentAuctionItem)
           /\ \A c \in Conns, itemId \in ItemIds :
                  (/\ Selectable(r, itemId)
                   /\ BoundAsAuctioneer(c, r)
                   /\ SelectItemForAuction(c, itemId))
                      => /\ out'.op = "select_item_for_auction"
                         /\ SelectedEffects(r, itemId)]_vars

\* C29 witness: the auctioneer selected item 1, which is now the lot at its base
\* price with no bidder
ItemSelected ==
    /\ out.op = "select_item_for_auction"
    /\ \E r \in Rooms :
           /\ out.room = r
           /\ GS(r).auctionState = "item_selected"
           /\ GS(r).currentAuctionItem = 1
           /\ ItemOf(GS(r), 1).status = "auctioning"
           /\ GS(r).currentHighestBid = ItemOf(GS(r), 1).basePrice
           /\ GS(r).currentHighestBidder = NULL


\* the status changes an item may make in one step
StatusStep(from, to) ==
    \/ to = from
    \/ from = "pending" /\ to = "auctioning"
    \/ from = "auctioning" /\ to \in {"sold", "pending"}

\* C30: item status changes only along pending -> auctioning, auctioning -> sold and
\* auctioning -> pending: a sold item never changes status again and is never
\* selected for auction again, and no item is ever removed from (or otherwise
\* altered in) the room's item sequence
ItemLifecycle ==
    [][\A r \in BothRooms :
           /\ Len(GS(r)'.items) >= Len(GS(r).items)
           /\ \A i \in DOMAIN GS(r).items :
                  /\ GS(r)'.items[i].id = GS(r).items[i].id
                  /\ GS(r)'.items[i].basePrice = GS(r).items[i].basePrice
                  /\ StatusStep(GS(r).items[i].status, GS(r)'.items[i].status)
                  /\ GS(r).items[i].status = "sold"
                         => /\ GS(r)'.items[i].status = "sold"
                            /\ GS(r)'.currentAuctionItem # GS(r).items[i].id]_vars

\* C30 witness: the room's item is sold and its buyer holds it, the room is idle
\* again, and a later request was rejected
SoldItemStaysSold ==
    /\ out.op = "rejected"
    /\ \E r \in Rooms :
           /\ GS(r).auctionState = "idle"
           /\ Len(GS(r).items) = 1
           /\ GS(r).items[1].status = "sold"
           /\ WonCount(GS(r)) = 1


\* ------------------------------------------------------ claims C31 - C40
\* a settings record an update may carry: budget at least 100, increment 1..100
\* percent, duration 5..120 seconds
SettingsInRange(s) ==
    /\ s.playerStartingBudget >= 100
    /\ s.minBidIncrementPercentage \in 1..100
    /\ s.auctionRoundDuration \in 5..120

\* C31: a valid update_settings by the auctioneer is accepted in every auctionState
\* and changes only the settings record: budgets, the lot, currentHighestBid, the
\* highest bidder, auctionState and the running timer's endTime stay as they are
SettingsUpdateOnlySettings ==
    [][\A r \in BothRooms :
           /\ (out'.op = "update_settings" /\ out'.room = r)
                  => GS(r)' = [GS(r) EXCEPT !.gameSettings = GS(r)'.gameSettings]
           /\ \A c \in Conns, s \in SettingsInputs :
                  (/\ out'.op \in {"update_settings", "rejected"}
                   /\ BoundAsAuctioneer(c, r)
                   /\ SettingsInRange(s)
                   /\ UpdateSettings(c, s))
                      => /\ out'.op = "update_settings"
                         /\ GS(r)'.gameSettings = s
                         /\ GS(r)'.auctionState = GS(r).auctionState]_vars

\* C31 witness: the settings were updated during bidding: the round duration is now
\* 5 s while the running timer still ends after the 15 s it was armed with
SettingsUpdatedMidRound ==
    /\ out.op = "update_settings"
    /\ \E r \in Rooms :
           /\ out.room = r
           /\ GS(r).auctionState = "bidding"
           /\ GS(r).gameSettings.auctionRoundDuration = 5
           /\ GS(r).timer.endTime = DEFAULT_GAME_SETTINGS.auctionRoundDuration


\* the step belongs to an AI helper query: its start, its immediate answer, its
\* later answer or apology
LlmStep == out'.op \in {"llm_query", "llm_response"}

\* C32: an AI helper query never changes any room's game state, timer or connection
\* bindings, whether it is answered, fails or stays pending: its steps change nothing
\* but the set of pending queries and send at most one llm_response, to the caller
\* and only while the caller's socket is open. While queries are pending the other
\* operations go on: their steps leave the pending queries alone, an armed timer can
\* still fire and an open socket can still close
LlmQueryHarmless ==
    [][/\ LlmStep
           => /\ UNCHANGED <<clients, gameRooms, ids>>
              /\ out'.bcast = <<>>
              /\ out'.reply \in {<<>>, <<"llm_response">>}
              /\ \A c \in llm \ llm' : clients[c].readyState # "OPEN" => out'.reply = <<>>
       /\ ~LlmStep => llm' = llm
       /\ llm # {}
           => /\ \A r \in Rooms :
                     TimerArmed(GS(r)) => ENABLED (\E late \in BOOLEAN : TimerCallback(r, late))
              /\ \A c \in Conns :
                     clients[c].readyState = "OPEN" => ENABLED Close(c)]_vars

\* C32 witness: while a query was pending the lot took a bid and was settled by the
\* timer, and the query is still pending
SettledWhileQueryPending ==
    /\ out.op = "timer"
    /\ llm # {}
    /\ \E r \in Rooms :
           /\ out.room = r
           /\ LotOver(GS(r))
           /\ WonCount(GS(r)) = 1


\* the open sockets bound to room r under its auctioneer's playerId
AuctioneerSockets(r) ==
    {c \in Conns : BoundOpen(clients, c, r)
                      /\ clients[c].playerId = gameRooms[r].auctioneerPlayerId}

\* C33: activeAuctioneerWsId identifies an open connection authenticated as the
\* room's auctioneer whenever one exists, and is absent exactly when none exists,
\* also after the auctioneer reconnected on a new connection and the old one closed
ActiveAuctioneerTracked ==
    \A r \in Rooms :
        IF AuctioneerSockets(r) # {}
        THEN gameRooms[r].activeAuctioneerWsId \in AuctioneerSockets(r)
        ELSE gameRooms[r].activeAuctioneerWsId = NULL


SocketsOf(r, p) ==
    {c \in Conns : BoundOpen(clients, c, r) /\ clients[c].playerId = p}

\* C34: for every Player of every room, the auctioneer's included, at most
\* one open socket is bound to its playerId, the Player's ws is that socket
\* when there is one, and the Player's ws is absent when there is none.
OneSocketPerPlayer ==
    \A r \in Rooms : \A p \in Players(r) :
        /\ Cardinality(SocketsOf(r, p)) <= 1
        /\ IF SocketsOf(r, p) # {}
           THEN GS(r).players[p].ws \in SocketsOf(r, p)
           ELSE GS(r).players[p].ws = NULL


\* the Player entities, as <<room, playerId>>, whose ws is socket c
PlayersOf(c) ==
    {rp \in Rooms \X PlayerIds :
        rp[2] \in Players(rp[1]) /\ GS(rp[1]).players[rp[2]].ws = c}

\* C35: an open socket is the ws of at most one Player across all rooms,
\* and that Player is the one named by the socket's own roomId and playerId.
SocketOnOnePlayer ==
    \A c \in Conns :
        clients[c].readyState = "OPEN" =>
            /\ Cardinality(PlayersOf(c)) <= 1
            /\ \A rp \in PlayersOf(c) :
                   clients[c].roomId = rp[1] /\ clients[c].playerId = rp[2]


\* C36: a socket bound to a room has role auctioneer exactly when its
\* playerId is the room's auctioneerPlayerId.
RoleMatchesIdentity ==
    \A c \in Conns :
        InRoom(c) /\ clients[c].readyState = "OPEN" =>
            (clients[c].role = "auctioneer"
                <=> clients[c].playerId = gameRooms[clients[c].roomId].auctioneerPlayerId)


\* C37: while a highest bidder is recorded the room is bidding, the bidder is
\* a Player of that room and currentHighestBid is at least the lot's
\* basePrice; while the room is idle currentHighestBid is 0 and no bidder
\* is recorded.
BidderImpliesBidding ==
    \A r \in Rooms :
        /\ GS(r).currentHighestBidder # NULL =>
               /\ GS(r).auctionState = "bidding"
               /\ GS(r).currentHighestBidder \in Players(r)
               /\ GS(r).currentAuctionItem # NULL
               /\ GS(r).currentHighestBid
                      >= ItemOf(GS(r), GS(r).currentAuctionItem).basePrice
        /\ GS(r).auctionState = "idle" =>
               /\ GS(r).currentHighestBid = 0
               /\ GS(r).currentHighestBidder = NULL

\* a highest bidder is recorded during a round
BidderRecorded ==
    \E r \in Rooms :
        /\ GS(r).currentHighestBidder # NULL
        /\ GS(r).auctionState = "bidding"
        /\ GS(r).currentHighestBid > ItemOf(GS(r), GS(r).currentAuctionItem).basePrice


\* the wonItems entries of room r that refer to item id, as <<player, index>>
WonEntries(r, id) ==
    {pk \in Players(r) \X (1..MaxItems + 1) :
        /\ pk[2] \in DOMAIN GS(r).players[pk[1]].wonItems
        /\ GS(r).players[pk[1]].wonItems[pk[2]].id = id}

IsPrefix(s, t) == Len(s) <= Len(t) /\ \A k \in DOMAIN s : s[k] = t[k]

\* C38: sold items and wonItems entries correspond one to one: a sold item
\* has exactly one entry among all wonItems of its room, every entry refers
\* to an item whose status is sold, and a step only appends to wonItems.
SoldIffWon ==
    /\ [](\A r \in Rooms :
            /\ \A i \in DOMAIN GS(r).items :
                   GS(r).items[i].status = "sold"
                       => Cardinality(WonEntries(r, GS(r).items[i].id)) = 1
            /\ \A p \in Players(r) : \A k \in DOMAIN GS(r).players[p].wonItems :
                   \E i \in DOMAIN GS(r).items :
                       /\ GS(r).items[i].id = GS(r).players[p].wonItems[k].id
                       /\ GS(r).items[i].status = "sold")
    /\ [][\A r \in Rooms : r \in DOMAIN gameRooms' =>
            \A p \in Players(r) :
                /\ p \in DOMAIN gameRooms'[r].gameState.players
                /\ IsPrefix(GS(r).players[p].wonItems,
                            gameRooms'[r].gameState.players[p].wonItems)]_vars

\* both items of a room are sold and each has its wonItems entry
TwoItemsWon ==
    \E r \in Rooms :
        /\ Len(GS(r).items) = MaxItems + 1
        /\ \A i \in DOMAIN GS(r).items : GS(r).items[i].status = "sold"
        /\ WonCount(GS(r)) = MaxItems + 1


\* a room whose only item was added with basePrice 0, which add_item accepts
\* (it rejects basePrice < 0 only); its auctioneer is on socket 1 and a second
\* socket is connected.  The runs that start here auction the free lot.
FreePrice == 0
FreeBids == {0, 1}

InitFreeLot ==
    LET gs0 == createNewGameState
        gs == [gs0 EXCEPT !.players = Extend(gs0.players, 1, NewPlayer(gs0, 1)),
                          !.items = <<NewItem(1, FreePrice)>>]
    IN /\ clients = [c \in Conns |->
                        IF c = 1 THEN [readyState |-> "OPEN", roomId |-> 1,
                                       playerId |-> 1, role |-> "auctioneer"]
                        ELSE [readyState |-> "OPEN", roomId |-> NULL,
                              playerId |-> NULL, role |-> "guest"]]
       /\ gameRooms = Extend(<<>>, 1, [gameState |-> gs, auctioneerPlayerId |-> 1,
                                       activeAuctioneerWsId |-> 1])
       /\ ids = [room |-> 1, player |-> 1, item |-> 1]
       /\ ghost = Extend(<<>>, 1, GhostJoin(GhostInit, 1, gs.players[1].budget))
       /\ out = Sent("add_item", 1, <<>>, <<"item_added", "auction_state_update">>)
       /\ llm = {}

NextFreeLot ==
    \/ \E c \in Conns, r \in RoomIds : JoinRoom(c, r)
    \/ \E c \in Conns, s \in SettingsInputs : UpdateSettings(c, s)
    \/ \E c \in Conns, i \in ItemIds : SelectItemForAuction(c, i)
    \/ \E c \in Conns : StartBidding(c)
    \/ \E c \in Conns : FinalizeItem(c)
    \/ \E c \in Conns : ClearAuction(c)
    \/ \E c \in Conns, p \in PlayerIds, b \in FreeBids : PlaceBid(c, p, b)
    \/ \E c \in Conns : Close(c)
    \/ \E r \in RoomIds, late \in BOOLEAN : TimerCallback(r, late)

SpecFreeLot == InitFreeLot /\ [][NextFreeLot]_vars

\* C39: every accepted bid is strictly greater than the currentHighestBid it
\* replaces, whatever the base price (0 included) and the increment percentage.
AcceptedBidStrictlyHigher ==
    [][\A r \in Rooms :
          (out'.op = "place_bid" /\ out'.room = r)
              => gameRooms'[r].gameState.currentHighestBid > GS(r).currentHighestBid]_vars


\* a room in which the auctioneer (socket 1, player 1) bought item 1 for 4900
\* of its 5000, then set the starting budget to 100 and the increment to 10
\* percent; player 2 (socket 2) joined afterwards with 100; item 2, added with
\* basePrice 80, is selected.  The runs that start here hold one bidding round
\* on item 2, with no disconnect and no settings update; ghost.bids counts the
\* bids accepted in it.
RoundPrice == 80
RoundBidAmounts == 87..101
RoundBids == 3
RoundSettings ==
    [playerStartingBudget |-> 100, minBidIncrementPercentage |-> 10,
     auctionRoundDuration |-> 5]

InitRound ==
    LET gs0 == createNewGameState
        p1 == [budget |-> 100, wonItems |-> <<[id |-> 1, finalBid |-> 4900]>>, ws |-> 1]
        gs1 == [gs0 EXCEPT !.gameSettings = RoundSettings]
        gs == [gs1 EXCEPT
                  !.players = Extend(Extend(gs0.players, 1, p1), 2, NewPlayer(gs1, 2)),
                  !.items = <<[NewItem(1, 100) EXCEPT !.status = "sold"],
                              [NewItem(2, RoundPrice) EXCEPT !.status = "auctioning"]>>,
                  !.currentAuctionItem = 2,
                  !.currentHighestBid = RoundPrice,
                  !.auctionState = "item_selected"]
    IN /\ clients = [c \in Conns |->
                        IF c = 1 THEN [readyState |-> "OPEN", roomId |-> 1,
                                       playerId |-> 1, role |-> "auctioneer"]
                        ELSE IF c = 2 THEN [readyState |-> "OPEN", roomId |-> 1,
                                            playerId |-> 2, role |-> "player"]
                        ELSE [readyState |-> "OPEN", roomId |-> NULL,
                              playerId |-> NULL, role |-> "guest"]]
       /\ gameRooms = Extend(<<>>, 1, [gameState |-> gs, auctioneerPlayerId |-> 1,
                                       activeAuctioneerWsId |-> 1])
       /\ ids = [room |-> 1, player |-> 2, item |-> 2]
       /\ ghost = Extend(<<>>, 1, GhostJoin(GhostJoin(GhostInit, 1, 5000), 2, 100))
       /\ out = Sent("select_item_for_auction", 1, <<>>, <<"auction_state_update", "info">>)
       /\ llm = {}

RoundTick == \E r \in RoomIds, late \in BOOLEAN : TimerCallback(r, late)

NextRound ==
    \/ \E c \in Conns : StartBidding(c)
    \/ \E c \in Conns, p \in PlayerIds, b \in RoundBidAmounts :
           PlaceBidUpTo(c, p, b, RoundBids)
    \/ \E c \in Conns : FinalizeItem(c)
    \/ \E c \in Conns : ClearAuction(c)
    \/ RoundTick

\* the interval callback keeps being scheduled while the timer is armed
SpecRound == InitRound /\ [][NextRound]_vars /\ WF_vars(RoundTick)

\* C40: a bidding round terminates.  The bids accepted in a round on a lot of
\* positive base price stay below RoundBids, so the limit of PlaceBidUpTo never
\* holds a bid back, and a room that is bidding is eventually idle again.
RoundTerminates ==
    /\ [](\A r \in Rooms : ghost[r].bids < RoundBids)
    /\ \A r \in RoomIds :
           (r \in Rooms /\ GS(r).auctionState = "bidding")
               ~> (r \in Rooms /\ GS(r).auctionState = "idle")

\* the timer ran out after two accepted bids and the lot was sold
RoundEndedByTimer ==
    /\ out.op = "timer"
    /\ \E r \in Rooms :
           /\ GS(r).auctionState = "idle"
           /\ ghost[r].bids = RoundBids - 1
           /\ ItemOf(GS(r), 2).status = "sold"
====
